---- MODULE Spec2Model ----
(***************************************************************************)
(* Eigenvector centrality (networkx/algorithms/centrality/eigenvector.py). *)
(*                                                                         *)
(* Two entry points are modelled as one state machine:                     *)
(*   eigenvector_centrality(G, max_iter, tol, nstart)   power iteration    *)
(*   eigenvector_centrality_numpy(G)                    eigen-decomposition*)
(*                                                                         *)
(* Python floats are modelled as fixed-point numbers: the integer v stands *)
(* for the real v / SCALE.  Nodes are 1..n.  Python dictionaries that can  *)
(* be aliased (nstart, x, xlast, the returned dict) live in `heap`, and    *)
(* the program variables hold object ids.                                  *)
(***************************************************************************)
EXTENDS Integers, Sequences, FiniteSets, TLC

\* ------------------------------------------------------------------ bounds
MaxNodes == 3
MaxIter == 3
EigSteps == 24
Weights == {1, 2}
StartVals == {0, 1}

\* ------------------------------------------------------- fixed-point floats
SCALE == 64 * 64
One == SCALE
\* the values of tol: about 0.001, and 0.5
SmallTol == SCALE \div 1024
LargeTol == SCALE \div 2
TolSet == {SmallTol, LargeTol}

Abs(a) == IF a < 0 THEN -a ELSE a
Sign(a) == IF a > 0 THEN 1 ELSE IF a < 0 THEN -1 ELSE 0

RECURSIVE SumSet(_, _)
SumSet(f, S) ==
    IF S = {} THEN 0
    ELSE LET n == CHOOSE m \in S : TRUE IN f[n] + SumSet(f, S \ {n})

RECURSIVE MaxSet(_, _)
MaxSet(f, S) ==
    LET n == CHOOSE m \in S : TRUE
    IN IF S = {n} THEN f[n]
       ELSE LET r == MaxSet(f, S \ {n}) IN IF f[n] > r THEN f[n] ELSE r

\* the floor of the square root of k, known to lie in lo..hi (bisection)
RECURSIVE ISqrtBetween(_, _, _)
ISqrtBetween(k, lo, hi) ==
    IF lo = hi THEN lo
    ELSE CHOOSE r \in {IF mid * mid <= k THEN ISqrtBetween(k, mid, hi)
                                         ELSE ISqrtBetween(k, lo, mid - 1) :
                        mid \in {(lo + hi + 1) \div 2}} : TRUE

\* floor of the square root, for 0 <= k < 2^31
ISqrt(k) == CHOOSE r \in {ISqrtBetween(n, 0, 46340) : n \in {k}} : TRUE

\* sqrt(sum(v**2 for v in x.values())), np.linalg.norm(values)
Norm2(v) == ISqrt(SumSet([n \in DOMAIN v |-> v[n] * v[n]], DOMAIN v))

\* 1.0 / d for d # 0
Recip(d) == (SCALE * SCALE) \div d

\* a * s for a float s
Times(a, s) == Sign(a) * Sign(s) * ((Abs(a) * Abs(s)) \div SCALE)

\* a / d for d > 0
Over(a, d) == Sign(a) * ((Abs(a) * SCALE) \div d)

\* ------------------------------------------------------------------ graphs
Pairs(n) == {p \in (1..n) \X (1..n) : p[1] < p[2]}

\* a simple undirected graph: wt[<<a, b>>] = 0 means no edge a-b
Graphs ==
    UNION {{[nodes |-> 1..n, wt |-> w] : w \in [Pairs(n) -> {0} \cup Weights]}
           : n \in 0..MaxNodes}

\* G[n][nbr].get('weight', 1), 0 when nbr is not a neighbour of n
W(g, a, b) ==
    IF a < b THEN g.wt[<<a, b>>] ELSE IF b < a THEN g.wt[<<b, a>>] ELSE 0

\* G[n]
Nbrs(g, a) == {b \in g.nodes : W(g, a, b) # 0}

GraphTypes == {"Graph", "MultiGraph", "MultiDiGraph"}

\* a type check that forgets MultiDiGraph
IsMultigraph_Undirected(t) == t = "MultiGraph"

\* type(G) == networkx.MultiGraph or type(G) == networkx.MultiDiGraph
IsMultigraph(t) == t = "MultiGraph" \/ t = "MultiDiGraph"

\* nstart=None
None == [given |-> FALSE, map |-> <<>>]

\* the nstart arguments: absent, or a mapping that covers every node
NStarts(g) ==
    {None} \cup {[given |-> TRUE, map |-> m] :
                    m \in [g.nodes -> {v * One : v \in StartVals}]}

\* no exception
NoError == [type |-> "None", text |-> "", args |-> <<>>]

\* ------------------------------------------------------------------- state
VARIABLES
    entry,       \* which function is called: "power" or "numpy"
    gtype,       \* type(G)
    numpy_ok,    \* whether `import numpy` succeeds in this environment
    G,           \* the graph argument
    max_iter,    \* argument max_iter
    tol,         \* argument tol
    nstart,      \* argument nstart as the caller built it: None or a mapping
    pc,          \* position in the called function
    heap,        \* object id -> dictionary (live dictionaries only)
    x,           \* object id bound to x (0: unbound)
    xlast,       \* object id bound to xlast (0: unbound)
    i,           \* rounds of the power iteration completed
    nnodes,      \* G.number_of_nodes()
    errs,        \* err of every round made so far, in order
    raised,      \* None, or the exception the call raised
    ret,         \* object id of the returned dictionary (0: nothing returned)
    centrality,  \* the dictionary `centrality` of eigenvector_centrality_numpy
    todo,        \* connected components the loop has not visited yet
    writes       \* per node, how many times centrality.update() set its entry

vars == <<entry, gtype, numpy_ok, G, max_iter, tol, nstart, pc, heap, x, xlast,
          i, nnodes, errs, raised, ret, centrality, todo, writes>>

args == <<entry, gtype, numpy_ok, G, max_iter, tol, nstart>>
powerLocals == <<x, xlast, i, nnodes, errs>>
numpyLocals == <<centrality, todo, writes>>

\* the object id of the caller's nstart dictionary
CALLER == 1

\* a fresh object id
Alloc(h) == CHOOSE k \in 1..(Cardinality(DOMAIN h) + 1) :
                k \notin DOMAIN h /\ \A j \in 1..(k - 1) : j \in DOMAIN h

\* the heap with the dictionaries in `keep` only (the others are unreachable)
Live(h, keep) == [k \in (DOMAIN h) \cap keep |-> h[k]]

CallerIds == IF nstart = None THEN {} ELSE {CALLER}

Init ==
    /\ entry \in {"power", "numpy"}
    /\ gtype \in GraphTypes
    /\ numpy_ok \in BOOLEAN
    /\ G \in Graphs
    /\ max_iter \in 1..MaxIter
    /\ tol \in TolSet
    /\ nstart \in NStarts(G)
    \* eigenvector_centrality_numpy(G) takes the graph only
    /\ entry = "numpy" => (max_iter = 1 /\ tol = SmallTol /\ nstart = None)
    \* a multigraph, and an environment without numpy, are tried with the
    \* small tol and the default nstart
    /\ (IsMultigraph(gtype) \/ ~numpy_ok) => (tol = SmallTol /\ nstart = None)
    /\ pc = "call"
    /\ heap = IF nstart = None THEN <<>> ELSE (CALLER :> nstart.map)
    /\ x = 0
    /\ xlast = 0
    /\ i = 0
    /\ nnodes = 0
    /\ errs = <<>>
    /\ raised = NoError
    /\ ret = 0
    /\ centrality = <<>>
    /\ todo = {}
    /\ writes = <<>>

\* ------------------------------------------- eigenvector_centrality (power)

\* raise Exception("... not defined for multigraphs.")
MultigraphError ==
    [type |-> "Exception", text |-> "not defined for multigraphs.", args |-> <<>>]

\* 1.0/0
ZeroDivisionError ==
    [type |-> "ZeroDivisionError", text |-> "float division by zero", args |-> <<>>]

\* x=dict([(n,1.0/len(G)) for n in G])
StartVector(g) == [n \in g.nodes |-> One \div Cardinality(g.nodes)]

\* s=1.0/sum(x.values()); for k in x: x[k]*=s      (sum # 0)
L1Scale(v) ==
    LET s == Recip(SumSet(v, DOMAIN v)) IN [k \in DOMAIN v |-> Times(v[k], s)]

\* x=dict.fromkeys(xlast.keys(),0); for n in x: for nbr in G[n]:
\*     x[n]+=xlast[nbr]*G[n][nbr].get('weight',1)
Multiply(g, xl) ==
    [n \in DOMAIN xl |->
        SumSet([nbr \in Nbrs(g, n) |-> xl[nbr] * W(g, n, nbr)], Nbrs(g, n))]

\* a scale factor that makes the entries sum to 1, as for the start vector
ScaleFactor_L1(y) ==
    IF SumSet(y, DOMAIN y) = 0 THEN One ELSE Recip(SumSet(y, DOMAIN y))

\* try: s=1.0/sqrt(sum(v**2 for v in x.values()))
\* except ZeroDivisionError: s=1.0
ScaleFactor(y) == IF Norm2(y) = 0 THEN One ELSE Recip(Norm2(y))

\* for n in x: x[n]*=s
Normalized(y) == LET s == ScaleFactor(y) IN [n \in DOMAIN y |-> Times(y[n], s)]

\* the err of a round that overwrote its vector in place: xlast is x
Err_Aliased(xn, xl) == SumSet([n \in DOMAIN xn |-> Abs(xn[n] - xn[n])], DOMAIN xn)

\* err=sum([abs(x[n]-xlast[n]) for n in x])
Err(xn, xl) == SumSet([n \in DOMAIN xn |-> Abs(xn[n] - xl[n])], DOMAIN xn)

\* a convergence test that also accepts err = nnodes*tol
Converged_OrEqual(err, nn, t) == err <= nn * t

\* err < nnodes*tol
Converged(err, nn, t) == err < nn * t

\* the argument of networkx.NetworkXError(...) with i bound to iv: one
\* triple-quoted literal that ends  %d iterations."%(i+1))  so the text
\* "%(i+1))" is part of the string, the % operator is never applied and
\* no value is formatted into the message (args: the values formatted in)
ConvergenceMessage(iv) ==
    [text |-> "eigenvector_centrality(): power iteration failed to converge in %d iterations.\"%(i+1))",
     args |-> <<>>]

\* if type(G) == networkx.MultiGraph or type(G) == networkx.MultiDiGraph: raise
PI_CheckType ==
    /\ pc = "call" /\ entry = "power"
    /\ IF IsMultigraph(gtype)
       THEN /\ raised' = MultigraphError
            /\ pc' = "done"
       ELSE /\ raised' = raised
            /\ pc' = "pi_init"
    /\ UNCHANGED <<args, heap, powerLocals, ret, numpyLocals>>

\* the dictionary bound to x at line 72-76: a new one, or the caller's own
StartObject(h) == IF nstart = None THEN Alloc(h) ELSE CALLER

\* lines 72-80
PI_InitVector ==
    /\ pc = "pi_init"
    /\ LET obj == StartObject(heap)
           h0  == IF nstart = None THEN (obj :> StartVector(G)) ELSE heap
       IN /\ x' = obj
          /\ IF SumSet(h0[obj], DOMAIN h0[obj]) = 0
             THEN /\ raised' = ZeroDivisionError
                  /\ heap' = Live(h0, CallerIds)
                  /\ pc' = "done"
                  /\ nnodes' = nnodes
             ELSE /\ raised' = raised
                  /\ heap' = [h0 EXCEPT ![obj] = L1Scale(h0[obj])]
                  /\ pc' = "pi_loop"
                  /\ nnodes' = Cardinality(G.nodes)
    /\ UNCHANGED <<args, xlast, i, errs, ret, numpyLocals>>

\* a round that zeroes and refills the dictionary x is bound to
RoundObject_InPlace(h) == x

\* the dictionary a round binds to x: dict.fromkeys() builds a new one
RoundObject(h) == Alloc(h)

\* one pass of the body of `for i in range(max_iter)`, lines 83-98
PI_Round ==
    /\ pc = "pi_loop" /\ i < max_iter
    /\ \E prev \in {x}, obj \in {RoundObject(heap)},
          cur \in {c \in {Normalized(Multiply(G, heap[x]))} : c = c} :
       LET err == Err(cur, heap[prev])
           h1  == [k \in (DOMAIN heap) \cup {obj} |->
                       IF k = obj THEN cur ELSE heap[k]]
       IN /\ xlast' = prev
          /\ x' = obj
          /\ errs' = Append(errs, err)
          /\ i' = i + 1
          /\ IF Converged(err, nnodes, tol)
             THEN /\ ret' = obj
                  /\ pc' = "done"
                  /\ heap' = Live(h1, CallerIds \cup {obj})
             ELSE /\ ret' = ret
                  /\ pc' = "pi_loop"
                  /\ heap' = Live(h1, CallerIds \cup {obj, prev})
    /\ UNCHANGED <<args, nnodes, raised, numpyLocals>>

\* raise networkx.NetworkXError(...), lines 100-101
PI_Exhausted ==
    /\ pc = "pi_loop" /\ i >= max_iter
    /\ raised' = [type |-> "NetworkXError",
                  text |-> ConvergenceMessage(i - 1).text,
                  args |-> ConvergenceMessage(i - 1).args]
    /\ pc' = "done"
    /\ heap' = Live(heap, CallerIds)
    /\ UNCHANGED <<args, powerLocals, ret, numpyLocals>>

\* ------------------------------------- eigenvector_centrality_numpy (eig)

\* raise ImportError("eigenvector_centrality_numpy() requires NumPy ...")
MissingNumpy == [type |-> "ImportError", text |-> "requires NumPy", args |-> <<>>]

\* the nodes reachable from S
RECURSIVE Grow(_, _)
Grow(g, S) ==
    LET T == S \cup UNION {Nbrs(g, a) : a \in S}
    IN IF T = S THEN S ELSE Grow(g, T)

\* networkx.connected_components(G)
ConnectedComponents(g) == {Grow(g, {a}) : a \in g.nodes}

\* networkx.adj_matrix(G,nodelist=nodes)
AdjMatrix(g, nodes) == [p \in nodes \X nodes |-> W(g, p[1], p[2])]

\* y / |y|
UnitVector(y) == LET norm == Norm2(y) IN [n \in DOMAIN y |-> Over(y[n], norm)]

\* k rounds of v <- (A + I) v / |(A + I) v|
RECURSIVE ShiftedPower(_, _, _)
ShiftedPower(A, v, k) ==
    IF k = 0 THEN v
    ELSE LET y == [n \in DOMAIN v |->
                 v[n] + SumSet([b \in DOMAIN v |-> A[<<n, b>>] * v[b]], DOMAIN v)]
         IN CHOOSE r \in {ShiftedPower(A, u, k - 1) :
                              u \in {w \in {UnitVector(y)} : w = w}} : TRUE

\* np.linalg.eig(A), the column of the largest eigenvalue: the unit-norm
\* eigenvector of A's largest eigenvalue, up to the sign the library returns
\* it with.  A is the matrix of a connected component with positive weights,
\* whose largest eigenvalue is simple and has a positive eigenvector.
LargestEigenvector(A, nodes, sigma) ==
    LET v == ShiftedPower(A, [n \in nodes |-> One \div Cardinality(nodes)], EigSteps)
    IN [n \in nodes |-> sigma * v[n]]

\* largest*np.sign(largest.max())
SignFixed(largest) ==
    [n \in DOMAIN largest |-> largest[n] * Sign(MaxSet(largest, DOMAIN largest))]

\* what the loop body computes for the component `nodes`, lines 152-158
ComponentVector(g, nodes, sigma) ==
    SignFixed(LargestEigenvector(AdjMatrix(g, nodes), nodes, sigma))

\* an assignment of a fresh mapping instead of an update
Update_Overwrite(c, values) ==
    [n \in DOMAIN c |-> IF n \in DOMAIN values THEN values[n] ELSE 0]

\* centrality.update(zip(nodes, values))
Update(c, values) ==
    [n \in DOMAIN c |-> IF n \in DOMAIN values THEN values[n] ELSE c[n]]

\* a float that is not a number
NaN == 0 - 4 * SCALE * SCALE

\* a return without the division by the norm
GlobalNormalized_Skipped(c) == c

\* norm=np.linalg.norm(centrality.values())
\* dict((n,v/norm) for n,v in centrality.items())
GlobalNormalized(c) ==
    LET norm == Norm2(c)
    IN [n \in DOMAIN c |-> IF norm = 0 THEN NaN ELSE Over(c[n], norm)]

\* try: import numpy as np / except ImportError: raise ImportError(...)
NP_Import ==
    /\ pc = "call" /\ entry = "numpy"
    /\ IF numpy_ok
       THEN /\ raised' = raised
            /\ pc' = "np_type"
       ELSE /\ raised' = MissingNumpy
            /\ pc' = "done"
    /\ UNCHANGED <<args, heap, powerLocals, ret, numpyLocals>>

\* if type(G) == networkx.MultiGraph or type(G) == networkx.MultiDiGraph: raise
NP_CheckType ==
    /\ pc = "np_type"
    /\ IF IsMultigraph(gtype)
       THEN /\ raised' = MultigraphError
            /\ pc' = "done"
       ELSE /\ raised' = raised
            /\ pc' = "np_setup"
    /\ UNCHANGED <<args, heap, powerLocals, ret, numpyLocals>>

\* centrality=dict.fromkeys(G.nodes(),0); networkx.connected_components(G)
NP_Setup ==
    /\ pc = "np_setup"
    /\ centrality' = [n \in G.nodes |-> 0]
    /\ writes' = [n \in G.nodes |-> 0]
    /\ todo' = ConnectedComponents(G)
    /\ pc' = "np_loop"
    /\ UNCHANGED <<args, heap, powerLocals, ret, raised>>

\* one pass of the body of `for nodes in ...connected_components(G)`
NP_Component ==
    /\ pc = "np_loop"
    /\ \E nodes \in todo, sigma \in {1, -1} :
          /\ centrality' = Update(centrality, ComponentVector(G, nodes, sigma))
          /\ writes' = [n \in DOMAIN writes |->
                           IF n \in nodes THEN writes[n] + 1 ELSE writes[n]]
          /\ todo' = todo \ {nodes}
    /\ UNCHANGED <<args, heap, powerLocals, ret, raised, pc>>

\* lines 159-160
NP_Return ==
    /\ pc = "np_loop" /\ todo = {}
    /\ LET obj == Alloc(heap)
       IN /\ heap' = (obj :> GlobalNormalized(centrality))
          /\ ret' = obj
    /\ pc' = "done"
    /\ UNCHANGED <<args, powerLocals, raised, numpyLocals>>

Next ==
    \/ PI_CheckType
    \/ PI_InitVector
    \/ PI_Round
    \/ PI_Exhausted
    \/ NP_Import
    \/ NP_CheckType
    \/ NP_Setup
    \/ NP_Component
    \/ NP_Return

Spec == Init /\ [][Next]_vars

\* eigenvector_centrality is sequential code without suspension points: a
\* call that has a next step takes it
PowerSteps == PI_CheckType \/ PI_InitVector \/ PI_Round \/ PI_Exhausted

FairSpec == Spec /\ WF_vars(PowerSteps)

\* ---------------------------------------------------------------- outcomes
Done == pc = "done"
Returned == pc = "done" /\ ret # 0
Result == heap[ret]

UnsupportedGraphType == raised = MultigraphError
ConvergenceFailure == raised.type = "NetworkXError"
MissingDependency == raised.type = "ImportError"

\* nothing of the iteration or of the decomposition has run
NoNumericWork ==
    /\ x = 0 /\ xlast = 0 /\ i = 0 /\ errs = <<>> /\ ret = 0
    /\ centrality = <<>> /\ todo = {} /\ writes = <<>>

\* |v| = 1 within the rounding of the arithmetic
NormSlack == SCALE \div 256
NormIsOne(v) == Abs(Norm2(v) - One) <= NormSlack

IsZero(v) == \A n \in DOMAIN v : v[n] = 0

\* the vector the iteration starts from, before it is rescaled
Start0 == IF nstart.given THEN nstart.map ELSE StartVector(G)

\* ------------------------------------------------------------------ claims

C2_FailureCarriesIterations ==
    (Done /\ ConvergenceFailure) => raised.args = <<max_iter>>

OneIsolatedNode(g) ==
    /\ Cardinality({n \in g.nodes : Nbrs(g, n) = {}}) = 1
    /\ Cardinality(ConnectedComponents(g)) = 2

\* C4 (as stated): with one isolated node and the other nodes connected, the
\* isolated node's score is exactly 0 in what either function returns, and
\* no division by zero is raised (default start vector).
C4_IsolatedNodeScoresZero ==
    (OneIsolatedNode(G) /\ nstart = None) =>
        /\ raised.type # "ZeroDivisionError"
        /\ Returned => \A n \in G.nodes : Nbrs(G, n) = {} => Result[n] = 0

\* the graph has a node and no edge, and the call is eigenvector_centrality
\* with the default start vector
EdgelessCall ==
    /\ entry = "power" /\ gtype = "Graph" /\ nstart = None
    /\ G.nodes # {} /\ \A n \in G.nodes : Nbrs(G, n) = {}

\* C5 (as stated): on a graph with nodes and no edges the first round has
\* err = 0 and the call returns the all-zero vector from that round.
C5_EdgelessConvergesAtOnce ==
    (EdgelessCall /\ Done) =>
        /\ Returned /\ IsZero(Result)
        /\ i = 1 /\ errs = <<0>>

\* C5 (amended): on a graph with nodes and no edges the first product is the
\* zero vector and no division fault is raised, but the err of the first
\* round is the sum of the start vector, 1, not 0.  The call returns the
\* all-zero vector from round 1 only if 1 < n*tol; otherwise from round 2,
\* whose err is 0, when max_iter >= 2; and with max_iter = 1 it fails with
\* ConvergenceFailure.
C5_EdgelessConvergence ==
    (EdgelessCall /\ Done) =>
        /\ Abs(errs[1] - One) <= nnodes
        /\ raised.type # "ZeroDivisionError"
        /\ IF errs[1] < nnodes * tol
           THEN Returned /\ IsZero(Result) /\ i = 1
           ELSE IF max_iter >= 2
                THEN Returned /\ IsZero(Result) /\ i = 2 /\ errs[2] = 0
                ELSE ConvergenceFailure /\ ret = 0 /\ i = 1

\* the zero vector returned from round 2 on the largest graph without edges
C5_Witness ==
    /\ EdgelessCall /\ Returned /\ IsZero(Result)
    /\ i = 2 /\ tol = SmallTol /\ Cardinality(G.nodes) = MaxNodes

\* C6 (as stated): what eigenvector_centrality_numpy returns has one entry
\* per node and global L2 norm 1, and the final division never divides by
\* zero, the graph without nodes included.
C6_GlobalNormIsOne ==
    (entry = "numpy" /\ Returned) =>
        /\ DOMAIN Result = G.nodes
        /\ NormIsOne(Result)
        /\ \A n \in G.nodes : Result[n] # NaN

\* C6 (amended): what eigenvector_centrality_numpy returns has one entry per
\* node; for a graph with at least one node (and positive weights) its global
\* L2 norm over all components is 1 and the combined norm it is divided by
\* is not zero; for the graph without nodes it is the empty mapping, whose
\* norm is 0, and no division is made.
C6_GlobalNormIsOneUnlessEmpty ==
    (entry = "numpy" /\ Returned) =>
        /\ DOMAIN Result = G.nodes
        /\ todo = {}
        /\ G.nodes # {} => /\ NormIsOne(Result)
                           /\ Norm2(centrality) # 0
                           /\ \A n \in G.nodes : Result[n] # NaN
        /\ G.nodes = {} => Result = <<>> /\ Norm2(Result) = 0

\* a vector returned for a graph of two components, one of them with an edge
C6_Witness ==
    /\ entry = "numpy" /\ Returned /\ NormIsOne(Result)
    /\ Cardinality(ConnectedComponents(G)) = 2
    /\ \E n \in G.nodes : Nbrs(G, n) # {}

\* C7 (as stated): eigenvector_centrality on a graph that is not a
\* multigraph, with nstart absent or covering every node, ends in exactly
\* one of: a returned vector, ConvergenceFailure, UnsupportedGraphType.
C7_ThreeOutcomes ==
    (entry = "power" /\ Done) =>
        \/ Returned /\ raised = NoError
        \/ ret = 0 /\ ConvergenceFailure
        \/ ret = 0 /\ UnsupportedGraphType

\* the rounds made so far: at most max_iter, none after a round below
\* nnodes*tol, a vector returned only from such a round, ConvergenceFailure
\* only after max_iter rounds none of which was below nnodes*tol
C8_LoopRounds ==
    entry = "power" =>
        /\ i <= max_iter /\ Len(errs) = i
        /\ \A k \in 1..(i - 1) : ~(errs[k] < nnodes * tol)
        /\ pc = "pi_loop" => \A k \in 1..i : ~(errs[k] < nnodes * tol)
        /\ ret # 0 => /\ Done /\ raised = NoError
                      /\ i \in 1..max_iter
                      /\ errs[i] < nnodes * tol
                      /\ ret = x
        /\ ConvergenceFailure =>
              /\ Done /\ ret = 0 /\ i = max_iter
              /\ \A k \in 1..i : ~(errs[k] < nnodes * tol)
        /\ (Done /\ i >= 1) => (ret # 0 \/ ConvergenceFailure)

\* C8: the loop makes at most max_iter rounds; the call returns the vector
\* of the first round whose err is below nnodes*tol and makes no round
\* after it; it raises ConvergenceFailure exactly after max_iter rounds none
\* of which was below nnodes*tol; and every call of eigenvector_centrality
\* ends.
C8_Terminates == []C8_LoopRounds /\ (entry = "power" => <>Done)

\* a vector returned from a round after a round that was not below nnodes*tol
C8_Witness ==
    /\ entry = "power" /\ Returned /\ i >= 2 /\ max_iter = MaxIter
    /\ tol = SmallTol /\ errs[1] >= nnodes * tol /\ ~IsZero(Result)

\* the subgraph of g on the nodes C
Induced(g, C) ==
    [nodes |-> C,
     wt |-> [p \in {q \in DOMAIN g.wt : q[1] \in C /\ q[2] \in C} |-> g.wt[p]]]

\* eigenvector_centrality_numpy on the connected graph g
Alone(g) ==
    GlobalNormalized(Update([n \in g.nodes |-> 0],
                            ComponentVector(g, g.nodes, 1)))

\* what the component of node n gets at n when it is computed alone
AloneAt(n) == Alone(Induced(G, Grow(G, {n})))[n]

\* rounding allowed when two products of scores are compared
ProductSlack == 8 * SCALE

C10_CallerMapping ==
    (entry = "power" /\ nstart.given) =>
        /\ CALLER \in DOMAIN heap
        /\ ret # CALLER
        /\ pc \in {"call", "pi_init"} => heap[CALLER] = nstart.map
        /\ raised.type = "ZeroDivisionError" => heap[CALLER] = nstart.map
        /\ (pc = "pi_loop" \/ i >= 1 \/ ConvergenceFailure) =>
              /\ Abs(SumSet(heap[CALLER], G.nodes) - One) <= nnodes
              /\ \A n \in G.nodes :
                    Abs(heap[CALLER][n] * SumSet(nstart.map, G.nodes)
                        - nstart.map[n] * One) <= 2 * SumSet(nstart.map, G.nodes)

\* a step leaves the graph and the nstart the caller passed as they are,
\* and once the loop runs it writes no dictionary that already exists
C10_StepFrame ==
    /\ G' = G /\ nstart' = nstart
    /\ pc = "pi_loop" => \A k \in (DOMAIN heap) \cap (DOMAIN heap') : heap'[k] = heap[k]

====
